---- MODULE Spec2Model ----
(***************************************************************************)
(* A model of the monkeycompiler service core:                             *)
(*   - the hash type tracker (visitor/contextual/hashhelper.go),           *)
(*   - the addition-chain code generator                                   *)
(*     (visitor/codegenerator/additionexpression.go),                      *)
(*   - the compile and run endpoints (handler/monkey.go),                  *)
(*   - the identification table attribute (identification/attribute.go).   *)
(* Each component has its own next-state relation and specification; the   *)
(* variables of the other components stay at their initial values.         *)
(***************************************************************************)
EXTENDS Integers, Sequences, FiniteSets

VARIABLES
    levels,     \* hashHelper.levels
    hashs,      \* hashHelper.hashs, a sequence of hash frames
    panicked,   \* TRUE once a tracker call has ended in a runtime panic
    ret,        \* the last tracker call and the value it returned
    marks,      \* history: frame count and levels recorded before each open newHash
    obs,        \* history: the key types set on the bottom frame since it was opened
    closed,     \* history: whether the frame the last closeHash removed had been written
    ctx,            \* the AdditionTreeContext being visited
    apc,            \* position of VisitAdditionTree
    totalBranches,  \* local of VisitAdditionTree
    index,          \* local of VisitAdditionTree
    visits,         \* the children handed to v.Visit, in order
    emitted,        \* the instruction stream the visits have appended
    pc,                \* per client: position in Compile/parsing or Run/run
    req,               \* per client: the program of the compile request being served
    requests,          \* per client: number of requests issued so far
    handlers,          \* heap of error listeners/handlers: their errors and lines lists
    parserErrors,      \* per client: local parserErrors of parsing (a reference)
    contextualErrors,  \* per client: local contextualErrors of parsing (a reference)
    generated,         \* per client: generatorVisitor.Code()
    file,              \* the file at cli.InstructionsCode
    response,          \* per client: the JSON body of the last response
    phases,            \* history, per client: the steps the current request has run
    outcome,           \* history, per client: the return path the current request took
    own,               \* history, per client: data written by its last successful compile
    launched,          \* history, per client: file data the VM was launched with
    attributes,   \* the attributes NewAttribute has allocated, in order of creation
    aret,         \* the last attribute call, its receiver and the value it returned
    prior         \* history: the receiver's visited flag before the last attribute call

trackerVars == <<levels, hashs, panicked, ret, marks, obs, closed>>

additionVars == <<ctx, apc, totalBranches, index, visits, emitted>>

serviceVars == <<pc, req, requests, handlers, parserErrors, contextualErrors, generated,
                 file, response, phases, outcome, own, launched>>

attributeVars == <<attributes, aret, prior>>

vars == <<trackerVars, additionVars, serviceVars, attributeVars>>

nonTrackerVars == <<additionVars, serviceVars, attributeVars>>
nonAdditionVars == <<trackerVars, serviceVars, attributeVars>>
nonServiceVars == <<trackerVars, additionVars, attributeVars>>
nonAttributeVars == <<trackerVars, additionVars, serviceVars>>

(***************************************************************************)
(* Bounds of the model.                                                    *)
(***************************************************************************)
MaxDepth == 3
MaxObs == 3
MaxBranches == 4
MaxLiteral == 2
MaxPrograms == 2
MaxErrors == 2
MaxRequests == 2
MaxAttributes == 2

(***************************************************************************)
(* hashhelper.go: HashType, hash, hashHelper                               *)
(***************************************************************************)
HUNKNOWN == 0
HINTEGER == 1
HSTRING == 2
HCOMPLEX == 3

HashType == {HUNKNOWN, HINTEGER, HSTRING, HCOMPLEX}

\* antlr.Token values; NilToken is the zero value of the interface
NilToken == "nil"
Tokens == {"token"}

\* hash{}: the zero value of a frame
hash == [token |-> NilToken, key |-> HUNKNOWN]

\* h.hashs[i] with Go's 0-based index
Frame(i) == hashs[i + 1]

\* a Go index expression h.hashs[i] panics unless 0 <= i < len(h.hashs)
InRange(i) == i >= 0 /\ i < Len(hashs)

\* history: the frame on top of the list, the zero frame when there is none
Top == IF hashs = <<>> THEN hash ELSE hashs[Len(hashs)]
\* history: what closeHash records about the frame it removes
Closed(frame) == IF frame = hash THEN "clean" ELSE "dirty"

\* the call that returned last, with the key type or token it returned
Returned(op, val) == [op |-> op, val |-> val]
NoValue == [key |-> HUNKNOWN, token |-> NilToken]
KeyValue(key) == [key |-> key, token |-> NilToken]
TokenValue(token) == [key |-> HUNKNOWN, token |-> token]

newHashHelper ==
    /\ levels = -1
    /\ hashs = <<>>
    /\ panicked = FALSE
    /\ ret = Returned("newHashHelper", NoValue)
    /\ marks = <<>>
    /\ obs = <<>>
    /\ closed = "none"

\* a runtime panic aborts the call before any assignment takes effect
Panic(op) ==
    /\ panicked' = TRUE
    /\ ret' = Returned(op, NoValue)
    /\ UNCHANGED <<levels, hashs, marks, obs, closed>>

\* newHash pushing a copy of the frame on top instead of the zero frame
newHash_inherits ==
    /\ ~panicked
    /\ UNCHANGED nonTrackerVars
    /\ Len(hashs) < MaxDepth
    /\ levels' = levels + 1
    /\ hashs' = Append(hashs, Top)
    /\ marks' = Append(marks, [frames |-> Len(hashs), levels |-> levels, top |-> Top])
    /\ obs' = IF Len(hashs) = 0 THEN <<>> ELSE obs
    /\ ret' = Returned("newHash", NoValue)
    /\ UNCHANGED <<panicked, closed>>

newHash ==
    /\ ~panicked
    /\ UNCHANGED nonTrackerVars
    /\ Len(hashs) < MaxDepth
    /\ levels' = levels + 1
    /\ hashs' = Append(hashs, hash)
    /\ marks' = Append(marks, [frames |-> Len(hashs), levels |-> levels, top |-> Top])
    /\ obs' = IF Len(hashs) = 0 THEN <<>> ELSE obs
    /\ ret' = Returned("newHash", NoValue)
    /\ UNCHANGED <<panicked, closed>>

\* setToken writing the token into every open frame
setToken_allFrames(token) ==
    /\ ~panicked
    /\ UNCHANGED nonTrackerVars
    /\ IF levels > -1
       THEN IF InRange(levels)
            THEN /\ hashs' = [i \in 1..Len(hashs) |-> [hashs[i] EXCEPT !.token = token]]
                 /\ ret' = Returned("setToken", NoValue)
                 /\ UNCHANGED <<levels, panicked, marks, obs>>
                 /\ closed' = "none"
            ELSE Panic("setToken")
       ELSE /\ ret' = Returned("setToken", NoValue)
            /\ UNCHANGED <<levels, hashs, panicked, marks, obs>>
            /\ closed' = "none"

setToken(token) ==
    /\ ~panicked
    /\ UNCHANGED nonTrackerVars
    /\ IF levels > -1
       THEN IF InRange(levels)
            THEN /\ hashs' = [hashs EXCEPT ![levels + 1].token = token]
                 /\ ret' = Returned("setToken", NoValue)
                 /\ UNCHANGED <<levels, panicked, marks, obs>>
                 /\ closed' = "none"
            ELSE Panic("setToken")
       ELSE /\ ret' = Returned("setToken", NoValue)
            /\ UNCHANGED <<levels, hashs, panicked, marks, obs>>
            /\ closed' = "none"

getToken ==
    /\ ~panicked
    /\ UNCHANGED nonTrackerVars
    /\ IF InRange(levels)
       THEN /\ ret' = Returned("getToken", TokenValue(Frame(levels).token))
            /\ UNCHANGED <<levels, hashs, panicked, marks, obs>>
            /\ closed' = "none"
       ELSE Panic("getToken")

\* setType guarded like setToken: a no-op when no frame is open
setType_guarded(key) ==
    /\ ~panicked
    /\ UNCHANGED nonTrackerVars
    /\ levels = 0 => Len(obs) < MaxObs
    /\ IF InRange(levels)
       THEN /\ hashs' = [hashs EXCEPT ![levels + 1].key = key]
            /\ obs' = IF levels = 0 THEN Append(obs, key) ELSE obs
            /\ ret' = Returned("setType", NoValue)
            /\ UNCHANGED <<levels, panicked, marks>>
            /\ closed' = "none"
       ELSE /\ ret' = Returned("setType", NoValue)
            /\ UNCHANGED <<levels, hashs, panicked, marks, obs>>
            /\ closed' = "none"

setType(key) ==
    /\ ~panicked
    /\ UNCHANGED nonTrackerVars
    /\ levels = 0 => Len(obs) < MaxObs
    /\ IF InRange(levels)
       THEN /\ hashs' = [hashs EXCEPT ![levels + 1].key = key]
            /\ obs' = IF levels = 0 THEN Append(obs, key) ELSE obs
            /\ ret' = Returned("setType", NoValue)
            /\ UNCHANGED <<levels, panicked, marks>>
            /\ closed' = "none"
       ELSE Panic("setType")

\* getType without its empty-stack guard
getType_unguarded ==
    /\ ~panicked
    /\ UNCHANGED nonTrackerVars
    /\ IF InRange(levels)
       THEN /\ ret' = Returned("getType", KeyValue(Frame(levels).key))
            /\ UNCHANGED <<levels, hashs, panicked, marks, obs>>
            /\ closed' = "none"
       ELSE Panic("getType")

getType ==
    /\ ~panicked
    /\ UNCHANGED nonTrackerVars
    /\ IF levels > -1
       THEN IF InRange(levels)
            THEN /\ ret' = Returned("getType", KeyValue(Frame(levels).key))
                 /\ UNCHANGED <<levels, hashs, panicked, marks, obs>>
                 /\ closed' = "none"
            ELSE Panic("getType")
       ELSE /\ ret' = Returned("getType", KeyValue(HCOMPLEX))
            /\ UNCHANGED <<levels, hashs, panicked, marks, obs>>
            /\ closed' = "none"

\* closeHash without the bounds check of the slice expression
closeHash_unchecked ==
    /\ ~panicked
    /\ UNCHANGED nonTrackerVars
    /\ levels >= -MaxDepth
    /\ hashs' = SubSeq(hashs, 1, levels)
    /\ levels' = levels - 1
    /\ marks' = IF marks = <<>> THEN marks ELSE SubSeq(marks, 1, Len(marks) - 1)
    /\ ret' = Returned("closeHash", NoValue)
    /\ UNCHANGED <<panicked, obs>>
    /\ closed' = Closed(Top)

\* closeHash that forgets to decrement levels
closeHash_keepsLevels ==
    /\ ~panicked
    /\ UNCHANGED nonTrackerVars
    /\ IF levels >= 0 /\ levels <= Len(hashs)
       THEN /\ hashs' = SubSeq(hashs, 1, levels)
            /\ marks' = IF marks = <<>> THEN marks ELSE SubSeq(marks, 1, Len(marks) - 1)
            /\ ret' = Returned("closeHash", NoValue)
            /\ UNCHANGED <<levels, panicked, obs>>
            /\ closed' = Closed(Top)
       ELSE Panic("closeHash")

\* closeHash truncating to one frame fewer than levels
closeHash_offByOne ==
    /\ ~panicked
    /\ UNCHANGED nonTrackerVars
    /\ IF levels >= 0 /\ levels <= Len(hashs)
       THEN /\ hashs' = SubSeq(hashs, 1, levels - 1)
            /\ levels' = levels - 1
            /\ marks' = IF marks = <<>> THEN marks ELSE SubSeq(marks, 1, Len(marks) - 1)
            /\ ret' = Returned("closeHash", NoValue)
            /\ UNCHANGED <<panicked, obs>>
            /\ closed' = Closed(Top)
       ELSE Panic("closeHash")

\* h.hashs[:h.levels] panics unless 0 <= levels <= cap(h.hashs); the slice is
\* taken before levels is decremented
closeHash ==
    /\ ~panicked
    /\ UNCHANGED nonTrackerVars
    /\ IF levels >= 0 /\ levels <= Len(hashs)
       THEN /\ hashs' = SubSeq(hashs, 1, levels)
            /\ levels' = levels - 1
            /\ marks' = IF marks = <<>> THEN marks ELSE SubSeq(marks, 1, Len(marks) - 1)
            /\ ret' = Returned("closeHash", NoValue)
            /\ UNCHANGED <<panicked, obs>>
            /\ closed' = Closed(Top)
       ELSE Panic("closeHash")

TrackerNext ==
    \/ newHash
    \/ \E token \in Tokens : setToken(token)
    \/ getToken
    \/ \E key \in HashType : setType(key)
    \/ getType
    \/ closeHash

(***************************************************************************)
(* additionexpression.go: VisitAdditionTree                                *)
(*   additionExpression:                                                   *)
(*     multiplicationExpression (additionFactor multiplicationExpression)* *)
(***************************************************************************)
Literals == 1..MaxLiteral
AdditionFactors == {"+", "-"}

\* the parse tree nodes of the rule: k+1 operands and k factors
AdditionTreeContext ==
    UNION {[operands : [1..n -> Literals], factors : [1..(n - 1) -> AdditionFactors]] :
             n \in 1..MaxBranches}

NoContext == [operands |-> <<>>, factors |-> <<>>]

\* ctx.MultiplicationExpression(i) and ctx.AdditionFactor(i), 0-based
MultiplicationExpression(i) == [rule |-> "multiplicationExpression", i |-> i]
AdditionFactor(i) == [rule |-> "additionFactor", i |-> i]

\* len(ctx.AllMultiplicationExpression())
AllMultiplicationExpression == Len(ctx.operands)

\* the instructions a visit of a child appends: a literal operand pushes its
\* constant, a factor emits its operator
Code(c, node) ==
    IF node.rule = "multiplicationExpression"
    THEN <<[op |-> "push", arg |-> c.operands[node.i + 1]]>>
    ELSE <<[op |-> IF c.factors[node.i + 1] = "+" THEN "add" ELSE "sub", arg |-> 0]>>

\* v.Visit(node), as a pair of new values for visits and emitted
Visit(vs, em, node) == [visits |-> Append(vs, node), emitted |-> em \o Code(ctx, node)]

AdditionInit ==
    /\ ctx = NoContext
    /\ apc = "idle"
    /\ totalBranches = 0
    /\ index = 0
    /\ visits = <<>>
    /\ emitted = <<>>

\* the dispatcher calls VisitAdditionTree with a node of the rule
EnterAdditionTree(c) ==
    /\ apc = "idle"
    /\ UNCHANGED nonAdditionVars
    /\ ctx' = c
    /\ apc' = "first"
    /\ UNCHANGED <<totalBranches, index, visits, emitted>>

\* lines 16-19
VisitFirstOperand ==
    /\ apc = "first"
    /\ UNCHANGED nonAdditionVars
    /\ LET r == Visit(visits, emitted, MultiplicationExpression(0))
       IN  /\ visits' = r.visits
           /\ emitted' = r.emitted
    /\ totalBranches' = AllMultiplicationExpression
    /\ index' = 1
    /\ apc' = "loop"
    /\ UNCHANGED ctx

\* a loop body that visits the factor before the operand that follows it
LoopIteration_infix ==
    /\ apc = "loop"
    /\ UNCHANGED nonAdditionVars
    /\ index < totalBranches
    /\ LET r1 == Visit(visits, emitted, AdditionFactor(index - 1))
           r2 == Visit(r1.visits, r1.emitted, MultiplicationExpression(index))
       IN  /\ visits' = r2.visits
           /\ emitted' = r2.emitted
    /\ index' = index + 1
    /\ UNCHANGED <<ctx, apc, totalBranches>>

\* lines 20-26, one iteration
LoopIteration ==
    /\ apc = "loop"
    /\ UNCHANGED nonAdditionVars
    /\ index < totalBranches
    /\ LET r1 == Visit(visits, emitted, MultiplicationExpression(index))
           r2 == Visit(r1.visits, r1.emitted, AdditionFactor(index - 1))
       IN  /\ visits' = r2.visits
           /\ emitted' = r2.emitted
    /\ index' = index + 1
    /\ UNCHANGED <<ctx, apc, totalBranches>>

\* lines 20 and 28: the loop test fails, return nil
ReturnAdditionTree ==
    /\ apc = "loop"
    /\ UNCHANGED nonAdditionVars
    /\ ~(index < totalBranches)
    /\ apc' = "done"
    /\ UNCHANGED <<ctx, totalBranches, index, visits, emitted>>

AdditionNext ==
    \/ \E c \in AdditionTreeContext : EnterAdditionTree(c)
    \/ VisitFirstOperand
    \/ LoopIteration
    \/ ReturnAdditionTree

(***************************************************************************)
(* handler/monkey.go: Compile, parsing, save, Run, run                     *)
(***************************************************************************)
\* the clients whose requests the service handles concurrently
Clients == {"a", "b"}

\* a request body's program, as parsing sees it: what the generator emits for
\* it (id), and how many errors the parser and the contextual visitor report
Program ==
    {p \in [id : 1..MaxPrograms, syntax : 0..MaxErrors, contextual : 0..MaxErrors] :
        p.syntax > 0 => p.contextual = 0}

NoProgram == [id |-> 0, syntax |-> 0, contextual |-> 0]

\* the i-th error a pass reports for program p, and its 1-based source line
Message(kind, p, i) == [kind |-> kind, program |-> p.id, n |-> i]
LineOf(p, i) == i + p.id - 1

\* an error listener or handler: two lists, appended to together
NoErrors == [errors |-> <<>>, lines |-> <<>>]
NewError(h, msg, line) == [errors |-> Append(h.errors, msg), lines |-> Append(h.lines, line)]

RECURSIVE Report(_, _, _, _)
Report(h, kind, p, n) ==
    IF n = 0 THEN h
    ELSE NewError(Report(h, kind, p, n - 1), Message(kind, p, n), LineOf(p, n))

\* Errors() and Lines() of a listener or handler
Errors(ref) == handlers[ref].errors
Lines(ref) == handlers[ref].lines
\* a list nothing was appended to is nil
IsNil(list) == list = <<>>

\* references to the objects a call of parsing constructs
NoRef == <<"none", "none">>
NewParserErrorListener(c) == <<c, "parser">>
\* one handler for every compilation
NewErrorsHandler_shared(c) == <<"a", "contextual">>
NewErrorsHandler(c) == <<c, "contextual">>
Refs == {NewParserErrorListener(c) : c \in Clients} \cup {NewErrorsHandler(c) : c \in Clients}

\* generatorVisitor.Code() for a program
GeneratedCode(p) == p.id

\* the file at cli.InstructionsCode
NoFile == [exists |-> FALSE, data |-> 0]
Written(data) == [exists |-> TRUE, data |-> data]

NoResponse == [status |-> 0, errors |-> <<>>, lines |-> <<>>, tree |-> 0, result |-> "", out |-> 0]
CompileResponse(errs, lns, tree) ==
    [status |-> 200, errors |-> errs, lines |-> lns, tree |-> tree, result |-> "", out |-> 0]
RunResponse(result, out) ==
    [status |-> 200, errors |-> <<>>, lines |-> <<>>, tree |-> 0, result |-> result, out |-> out]
BadRequestResponse ==
    [status |-> 400, errors |-> <<>>, lines |-> <<>>, tree |-> 0, result |-> "Bad request", out |-> 0]

ServiceInit ==
    /\ pc = [c \in Clients |-> "idle"]
    /\ req = [c \in Clients |-> NoProgram]
    /\ requests = [c \in Clients |-> 0]
    /\ handlers = [r \in Refs |-> NoErrors]
    /\ parserErrors = [c \in Clients |-> NoRef]
    /\ contextualErrors = [c \in Clients |-> NoRef]
    /\ generated = [c \in Clients |-> 0]
    /\ file = NoFile
    /\ response = [c \in Clients |-> NoResponse]
    /\ phases = [c \in Clients |-> <<>>]
    /\ outcome = [c \in Clients |-> "none"]
    /\ own = [c \in Clients |-> 0]
    /\ launched = [c \in Clients |-> NoFile]

\* a client may issue its next request once the previous one has been answered
CanRequest(c) ==
    /\ pc[c] \in {"idle", "done"}
    /\ requests[c] < MaxRequests

\* a handler starts on a request: the locals of the previous one are gone
StartRequest(c, at, p) ==
    /\ pc' = [pc EXCEPT ![c] = at]
    /\ req' = [req EXCEPT ![c] = p]
    /\ requests' = [requests EXCEPT ![c] = @ + 1]
    /\ phases' = [phases EXCEPT ![c] = <<>>]
    /\ launched' = [launched EXCEPT ![c] = NoFile]

\* parsing or run returns and the handler responds: the call's locals go out of scope
Return(c, how, resp) ==
    /\ pc' = [pc EXCEPT ![c] = "done"]
    /\ outcome' = [outcome EXCEPT ![c] = how]
    /\ response' = [response EXCEPT ![c] = resp]
    /\ handlers' = [r \in Refs |->
                      IF r \in {parserErrors[c], contextualErrors[c]} THEN NoErrors
                      ELSE handlers[r]]
    /\ parserErrors' = [parserErrors EXCEPT ![c] = NoRef]
    /\ contextualErrors' = [contextualErrors EXCEPT ![c] = NoRef]
    /\ generated' = [generated EXCEPT ![c] = 0]

Ran(c, phase) == phases' = [phases EXCEPT ![c] = Append(@, phase)]

\* lines 33-38: the request body does not bind
BadRequest(c) ==
    /\ CanRequest(c)
    /\ UNCHANGED nonServiceVars
    /\ StartRequest(c, "done", NoProgram)
    /\ outcome' = [outcome EXCEPT ![c] = "badrequest"]
    /\ response' = [response EXCEPT ![c] = BadRequestResponse]
    /\ UNCHANGED <<handlers, parserErrors, contextualErrors, generated, file, own>>

\* lines 31-41: the request binds and parsing is called with its program
Compile(c, p) ==
    /\ CanRequest(c)
    /\ UNCHANGED nonServiceVars
    /\ StartRequest(c, "parse", p)
    /\ outcome' = [outcome EXCEPT ![c] = "none"]
    /\ response' = [response EXCEPT ![c] = NoResponse]
    /\ UNCHANGED <<handlers, parserErrors, contextualErrors, generated, file, own>>

\* lines 54-75: lexer and parser run with a new listener, which collects the
\* program's syntax errors
Parse(c) ==
    /\ pc[c] = "parse"
    /\ UNCHANGED nonServiceVars
    /\ parserErrors' = [parserErrors EXCEPT ![c] = NewParserErrorListener(c)]
    /\ handlers' = [handlers EXCEPT ![NewParserErrorListener(c)] =
                                      Report(NoErrors, "syntax", req[c], req[c].syntax)]
    /\ Ran(c, "parse")
    /\ pc' = [pc EXCEPT ![c] = "parsed"]
    /\ UNCHANGED <<req, requests, contextualErrors, generated, file, response, outcome,
                   own, launched>>

\* lines 77-83 entered whatever the parser reported
SetUpContextual_unchecked(c) ==
    /\ pc[c] = "parsed"
    /\ UNCHANGED nonServiceVars
    /\ contextualErrors' = [contextualErrors EXCEPT ![c] = NewErrorsHandler(c)]
    /\ handlers' = [handlers EXCEPT ![NewErrorsHandler(c)] = NoErrors]
    /\ pc' = [pc EXCEPT ![c] = "contextual"]
    /\ UNCHANGED <<req, requests, parserErrors, generated, file, response, phases, outcome,
                   own, launched>>

\* lines 77-83: no syntax errors; a new errors handler, table and contextual visitor
SetUpContextual(c) ==
    /\ pc[c] = "parsed"
    /\ IsNil(Errors(parserErrors[c]))
    /\ UNCHANGED nonServiceVars
    /\ contextualErrors' = [contextualErrors EXCEPT ![c] = NewErrorsHandler(c)]
    /\ handlers' = [handlers EXCEPT ![NewErrorsHandler(c)] = NoErrors]
    /\ pc' = [pc EXCEPT ![c] = "contextual"]
    /\ UNCHANGED <<req, requests, parserErrors, generated, file, response, phases, outcome,
                   own, launched>>

\* line 85: the contextual visitor walks the tree and reports the program's
\* contextual errors to its handler
ContextualVisit(c) ==
    /\ pc[c] = "contextual"
    /\ UNCHANGED nonServiceVars
    /\ handlers' = [handlers EXCEPT ![contextualErrors[c]] =
                                      Report(@, "contextual", req[c], req[c].contextual)]
    /\ Ran(c, "contextual")
    /\ pc' = [pc EXCEPT ![c] = "analysed"]
    /\ UNCHANGED <<req, requests, parserErrors, contextualErrors, generated, file, response,
                   outcome, own, launched>>

\* lines 88-91 entered whatever the contextual visitor reported
Generate_unchecked(c) ==
    /\ pc[c] = "analysed"
    /\ UNCHANGED nonServiceVars
    /\ generated' = [generated EXCEPT ![c] = GeneratedCode(req[c])]
    /\ Ran(c, "codegen")
    /\ pc' = [pc EXCEPT ![c] = "generated"]
    /\ UNCHANGED <<req, requests, handlers, parserErrors, contextualErrors, file, response,
                   outcome, own, launched>>

\* lines 87-91: no contextual errors; a new code generator walks the tree
Generate(c) ==
    /\ pc[c] = "analysed"
    /\ IsNil(Errors(contextualErrors[c]))
    /\ UNCHANGED nonServiceVars
    /\ generated' = [generated EXCEPT ![c] = GeneratedCode(req[c])]
    /\ Ran(c, "codegen")
    /\ pc' = [pc EXCEPT ![c] = "generated"]
    /\ UNCHANGED <<req, requests, handlers, parserErrors, contextualErrors, file, response,
                   outcome, own, launched>>

\* lines 94, 101, 111-117: save writes the instructions; parsing returns empty lists
Save(c) ==
    /\ pc[c] = "generated"
    /\ UNCHANGED nonServiceVars
    /\ file' = Written(generated[c])
    /\ own' = [own EXCEPT ![c] = generated[c]]
    /\ Ran(c, "save")
    /\ Return(c, "ok", CompileResponse(<<>>, <<>>, req[c].id))
    /\ UNCHANGED <<req, requests, launched>>

\* a failed WriteFile that is tried once more before parsing gives up
SaveFails_retry(c) ==
    /\ pc[c] = "generated"
    /\ UNCHANGED nonServiceVars
    /\ \E f \in {file, Written(0)} : file' = f
    /\ Ran(c, "save")
    /\ IF "save" \in {phases[c][i] : i \in 1..Len(phases[c])}
       THEN Return(c, "savefailed",
                   CompileResponse(<<Message("save", req[c], 1)>>, <<>>, req[c].id))
       ELSE UNCHANGED <<pc, outcome, response, handlers, parserErrors, contextualErrors,
                        generated>>
    /\ UNCHANGED <<req, requests, own, launched>>

\* lines 94-99, 112-115: WriteFile fails, leaving the file as it was or
\* truncated; parsing returns the failure message and no line
SaveFails(c) ==
    /\ pc[c] = "generated"
    /\ UNCHANGED nonServiceVars
    /\ \E f \in {file, Written(0)} : file' = f
    /\ Ran(c, "save")
    /\ Return(c, "savefailed", CompileResponse(<<Message("save", req[c], 1)>>, <<>>, req[c].id))
    /\ UNCHANGED <<req, requests, own, launched>>

\* line 104 returning the messages without their lines
ReturnContextualErrors_noLines(c) ==
    /\ pc[c] = "analysed"
    /\ ~IsNil(Errors(contextualErrors[c]))
    /\ UNCHANGED nonServiceVars
    /\ Return(c, "contextual", CompileResponse(Errors(contextualErrors[c]), <<>>, req[c].id))
    /\ UNCHANGED <<req, requests, file, phases, own, launched>>

\* lines 87, 104: contextual errors are returned with their lines
ReturnContextualErrors(c) ==
    /\ pc[c] = "analysed"
    /\ ~IsNil(Errors(contextualErrors[c]))
    /\ UNCHANGED nonServiceVars
    /\ Return(c, "contextual",
              CompileResponse(Errors(contextualErrors[c]), Lines(contextualErrors[c]), req[c].id))
    /\ UNCHANGED <<req, requests, file, phases, own, launched>>

\* line 107 reached after the instructions of the rejected program were saved
ReturnParserErrors_saving(c) ==
    /\ pc[c] = "parsed"
    /\ ~IsNil(Errors(parserErrors[c]))
    /\ UNCHANGED nonServiceVars
    /\ file' = Written(GeneratedCode(req[c]))
    /\ Return(c, "syntax",
              CompileResponse(Errors(parserErrors[c]), Lines(parserErrors[c]), req[c].id))
    /\ UNCHANGED <<req, requests, phases, own, launched>>

\* lines 77, 107: syntax errors are returned with their lines
ReturnParserErrors(c) ==
    /\ pc[c] = "parsed"
    /\ ~IsNil(Errors(parserErrors[c]))
    /\ UNCHANGED nonServiceVars
    /\ Return(c, "syntax",
              CompileResponse(Errors(parserErrors[c]), Lines(parserErrors[c]), req[c].id))
    /\ UNCHANGED <<req, requests, file, phases, own, launched>>

\* lines 121-123: the run endpoint calls run
Run(c) ==
    /\ CanRequest(c)
    /\ UNCHANGED nonServiceVars
    /\ StartRequest(c, "stat", NoProgram)
    /\ outcome' = [outcome EXCEPT ![c] = "none"]
    /\ response' = [response EXCEPT ![c] = NoResponse]
    /\ UNCHANGED <<handlers, parserErrors, contextualErrors, generated, file, own>>

\* lines 133-135: os.Stat fails
StatMissing(c) ==
    /\ pc[c] = "stat"
    /\ ~file.exists
    /\ UNCHANGED nonServiceVars
    /\ Ran(c, "stat")
    /\ Return(c, "notfound",
              RunResponse("Instructions code not found. Must compile first. ...failed", 0))
    /\ UNCHANGED <<req, requests, file, own, launched>>

\* run going on to the VM without looking at the result of os.Stat
StatFound_unchecked(c) ==
    /\ pc[c] = "stat"
    /\ UNCHANGED nonServiceVars
    /\ Ran(c, "stat")
    /\ pc' = [pc EXCEPT ![c] = "exec"]
    /\ UNCHANGED <<req, requests, handlers, parserErrors, contextualErrors, generated, file,
                   response, outcome, own, launched>>

\* line 133: os.Stat succeeds
StatFound(c) ==
    /\ pc[c] = "stat"
    /\ file.exists
    /\ UNCHANGED nonServiceVars
    /\ Ran(c, "stat")
    /\ pc' = [pc EXCEPT ![c] = "exec"]
    /\ UNCHANGED <<req, requests, handlers, parserErrors, contextualErrors, generated, file,
                   response, outcome, own, launched>>

\* lines 137-142: the VM is launched on the file as it is now, and either
\* fails or prints the output of the instructions it read
Exec(c) ==
    /\ pc[c] = "exec"
    /\ UNCHANGED nonServiceVars
    /\ launched' = [launched EXCEPT ![c] = file]
    /\ Ran(c, "exec")
    /\ \E ok \in BOOLEAN :
          IF ok
          THEN Return(c, "finished", RunResponse("...finished", file.data))
          ELSE Return(c, "vmfailed", RunResponse("...failed", 0))
    /\ UNCHANGED <<req, requests, file, own>>

ServiceNext ==
    \/ \E c \in Clients : BadRequest(c)
    \/ \E c \in Clients : \E p \in Program : Compile(c, p)
    \/ \E c \in Clients : Parse(c)
    \/ \E c \in Clients : SetUpContextual(c)
    \/ \E c \in Clients : ContextualVisit(c)
    \/ \E c \in Clients : Generate(c)
    \/ \E c \in Clients : Save(c)
    \/ \E c \in Clients : SaveFails(c)
    \/ \E c \in Clients : ReturnContextualErrors(c)
    \/ \E c \in Clients : ReturnParserErrors(c)
    \/ \E c \in Clients : Run(c)
    \/ \E c \in Clients : StatMissing(c)
    \/ \E c \in Clients : StatFound(c)
    \/ \E c \in Clients : Exec(c)

(***************************************************************************)
(* identification/attribute.go: ExpressionType, attribute                  *)
(***************************************************************************)
NEUTRAL == 0
IDENTIFIER == 1
FUNCTION == 2
HASH == 3
ARRAY == 4
ExpressionType == {NEUTRAL, IDENTIFIER, FUNCTION, HASH, ARRAY}

\* the values the data field is given: nil (identifiers) or a data record
AttributeData == {"nil", "data"}

\* the attribute struct; visited is the used flag
attribute(expression, token, visited, data) ==
    [expression |-> expression, token |-> token, visited |-> visited, data |-> data]

\* pointers to the attributes allocated so far
Attributes == 1..Len(attributes)

\* the call that returned last on an attribute
AttributeReturned(op, a, val) == [op |-> op, on |-> a, val |-> val]
NoResult == [none |-> TRUE]

AttributeInit ==
    /\ attributes = <<>>
    /\ aret = AttributeReturned("none", 0, NoResult)
    /\ prior = FALSE

\* NewAttribute: the composite literal leaves visited at its zero value
NewAttribute(expression, token, data) ==
    /\ UNCHANGED nonAttributeVars
    /\ Len(attributes) < MaxAttributes
    /\ attributes' = Append(attributes, attribute(expression, token, FALSE, data))
    /\ aret' = AttributeReturned("NewAttribute", Len(attributes) + 1, NoResult)
    /\ prior' = FALSE

\* attribute.getToken
attribute_getToken(a) ==
    /\ UNCHANGED nonAttributeVars
    /\ aret' = AttributeReturned("getToken", a, [token |-> attributes[a].token])
    /\ prior' = attributes[a].visited
    /\ UNCHANGED attributes

\* markVisited flipping the flag instead of setting it
markVisited_toggle(a) ==
    /\ UNCHANGED nonAttributeVars
    /\ attributes' = [attributes EXCEPT ![a].visited = ~attributes[a].visited]
    /\ aret' = AttributeReturned("markVisited", a, NoResult)
    /\ prior' = attributes[a].visited

markVisited(a) ==
    /\ UNCHANGED nonAttributeVars
    /\ attributes' = [attributes EXCEPT ![a].visited = TRUE]
    /\ aret' = AttributeReturned("markVisited", a, NoResult)
    /\ prior' = attributes[a].visited

wasVisited(a) ==
    /\ UNCHANGED nonAttributeVars
    /\ aret' = AttributeReturned("wasVisited", a, [visited |-> attributes[a].visited])
    /\ prior' = attributes[a].visited
    /\ UNCHANGED attributes

GetType(a) ==
    /\ UNCHANGED nonAttributeVars
    /\ aret' = AttributeReturned("GetType", a, [expression |-> attributes[a].expression])
    /\ prior' = attributes[a].visited
    /\ UNCHANGED attributes

GetData(a) ==
    /\ UNCHANGED nonAttributeVars
    /\ aret' = AttributeReturned("GetData", a, [data |-> attributes[a].data])
    /\ prior' = attributes[a].visited
    /\ UNCHANGED attributes

AttributeNext ==
    \/ \E e \in ExpressionType : \E t \in Tokens : \E d \in AttributeData :
          NewAttribute(e, t, d)
    \/ \E a \in Attributes : attribute_getToken(a)
    \/ \E a \in Attributes : markVisited(a)
    \/ \E a \in Attributes : wasVisited(a)
    \/ \E a \in Attributes : GetType(a)
    \/ \E a \in Attributes : GetData(a)

Init == newHashHelper /\ AdditionInit /\ ServiceInit /\ AttributeInit

Next == TrackerNext \/ AdditionNext \/ ServiceNext \/ AttributeNext

Spec == Init /\ [][Next]_vars

TrackerSpec == Init /\ [][TrackerNext]_vars

AdditionSpec == Init /\ [][AdditionNext]_vars

ServiceSpec == Init /\ [][ServiceNext]_vars

AttributeSpec == Init /\ [][AttributeNext]_vars

(***************************************************************************)
(* Claims about the hash type tracker                                      *)
(***************************************************************************)

\* C1: after any balanced sequence of newHash/closeHash calls (with setType,
\* setToken, getType, getToken calls in between) the number of frames and the
\* levels counter are what they were before the sequence. marks holds the
\* frame count and levels recorded before each newHash that is still open, so
\* every state is the end of a balanced sequence that started right after the
\* newHash on top of marks (or at construction, when marks is empty).
C1_BalancedRestoresDepth ==
    IF marks = <<>>
    THEN Len(hashs) = 0 /\ levels = -1
    ELSE /\ Len(hashs) = marks[Len(marks)].frames + 1
         /\ levels = marks[Len(marks)].levels + 1

\* an inner frame has just been closed under an outer frame whose key type was
\* set to String and which is still open
C1_Witness ==
    /\ ret.op = "closeHash"
    /\ ~panicked
    /\ Len(marks) = 1
    /\ Len(hashs) = 1
    /\ hashs[1].key = HSTRING

\* C2: getType called while no frame is open returns HCOMPLEX, never HUNKNOWN,
\* and does not panic.
C2_EmptyGetTypeIsComplex ==
    (ret.op = "getType" /\ Len(hashs) = 0) =>
        (ret.val.key = HCOMPLEX /\ ret.val.key # HUNKNOWN /\ ~panicked)

\* getType answered on a tracker whose frame had been opened, typed and closed
C2_Witness ==
    /\ ret.op = "getType"
    /\ Len(hashs) = 0
    /\ obs # <<>>

IsPermutation(s, t) ==
    /\ Len(s) = Len(t)
    /\ \A k \in HashType :
          Cardinality({i \in 1..Len(s) : s[i] = k}) =
          Cardinality({i \in 1..Len(t) : t[i] = k})

\* C3: the key type of one open frame after observing a fixed multiset of key
\* types does not depend on the order: Integer, Integer, String in any order
\* leaves it Complex, and Integer, Integer leaves it Integer.
C3_OrderIndependent ==
    levels = 0 =>
        /\ IsPermutation(obs, <<HINTEGER, HINTEGER, HSTRING>>) => Frame(0).key = HCOMPLEX
        /\ obs = <<HINTEGER, HINTEGER>> => Frame(0).key = HINTEGER

\* C4: once an open frame's key type is Complex it stays Complex for as long
\* as that frame is open.
C4_ComplexIsSticky ==
    [][\A i \in 1..Len(hashs) :
          (hashs[i].key = HCOMPLEX /\ Len(hashs') >= i) => hashs'[i].key = HCOMPLEX]_vars


(***************************************************************************)
(* Claims about the addition-chain code generator                          *)
(***************************************************************************)

\* the order the claim states for operands 0..j: a0, then a_i followed by op_i
RECURSIVE ExpectedVisits(_)
ExpectedVisits(j) ==
    IF j = 0
    THEN <<MultiplicationExpression(0)>>
    ELSE ExpectedVisits(j - 1) \o <<MultiplicationExpression(j), AdditionFactor(j - 1)>>

\* code(a0) code(a1) [op1] ... code(ak) [opk]
RECURSIVE ExpectedCode(_, _)
ExpectedCode(c, j) ==
    IF j = 0
    THEN <<[op |-> "push", arg |-> c.operands[1]]>>
    ELSE ExpectedCode(c, j - 1) \o
         <<[op |-> "push", arg |-> c.operands[j + 1]],
           [op |-> IF c.factors[j] = "+" THEN "add" ELSE "sub", arg |-> 0]>>

Position(seq, x) == CHOOSE p \in 1..Len(seq) : seq[p] = x

\* C5: for a chain of k+1 operands and k operators VisitAdditionTree visits
\* a0, a1, op1, ..., ak, opk in this order, so the emitted stream is
\* code(a0) code(a1) [op1] ... code(ak) [opk]: exactly k operator emissions,
\* each after both of its operands, and none for a single operand.
C5_PostfixOrder ==
    apc = "done" =>
        LET k == Len(ctx.factors)
            operators == {p \in 1..Len(emitted) : emitted[p].op \in {"add", "sub"}}
        IN  /\ visits = ExpectedVisits(k)
            /\ emitted = ExpectedCode(ctx, k)
            /\ Cardinality(operators) = k
            /\ \A j \in 1..k :
                  /\ Position(visits, MultiplicationExpression(j - 1))
                        < Position(visits, AdditionFactor(j - 1))
                  /\ Position(visits, MultiplicationExpression(j))
                        < Position(visits, AdditionFactor(j - 1))

\* 1 + 2 - 1 has been generated: push 1, push 2, add, push 1, sub
C5_Witness ==
    /\ apc = "done"
    /\ ctx.operands = <<1, 2, 1>>
    /\ ctx.factors = <<"+", "-">>
    /\ Len(emitted) = 5

\* a single operand has been generated with no operator
C5_WitnessSingle ==
    /\ apc = "done"
    /\ Len(ctx.operands) = 1
    /\ Len(emitted) = 1

(***************************************************************************)
(* Claims about the compile and run endpoints                              *)
(***************************************************************************)
Range(seq) == {seq[i] : i \in 1..Len(seq)}
IsPrefix(s, t) == Len(s) <= Len(t) /\ SubSeq(t, 1, Len(s)) = s
IsCompile(c) == req[c] # NoProgram
CompilePhases == <<"parse", "contextual", "codegen", "save">>

\* what a pass reports for program p, as the two lists of a response
ExpectedErrors(kind, p, n) == [i \in 1..n |-> Message(kind, p, i)]
ExpectedLines(p, n) == [i \in 1..n |-> LineOf(p, i)]

\* C6: within one compilation the phases run in the order parse, contextual
\* analysis, code generation, persistence; code generation and persistence
\* happen only after contextual analysis has completed with zero errors, and
\* when contextual analysis reports an error code generation does not run.
C6_PhaseOrder ==
    \A c \in Clients :
        IsCompile(c) =>
            /\ IsPrefix(phases[c], CompilePhases)
            /\ "codegen" \in Range(phases[c]) =>
                  (req[c].syntax = 0 /\ req[c].contextual = 0)
            /\ pc[c] = "generated" => IsNil(Errors(contextualErrors[c]))
            /\ outcome[c] = "contextual" =>
                  (phases[c] = <<"parse", "contextual">> /\ generated[c] = 0)

\* one compile went through all four phases, another stopped after a
\* contextual error
C6_Witness ==
    /\ phases["a"] = CompilePhases
    /\ outcome["a"] = "ok"
    /\ outcome["b"] = "contextual"
    /\ req["b"].contextual > 0

\* C7: when the parse step reports at least one syntax error, the contextual
\* visitor and the code generator are not invoked, nothing is persisted, and
\* the compile result is the parser's error and line lists.
C7_SyntaxErrorsStopCompile ==
    \A c \in Clients :
        (IsCompile(c) /\ req[c].syntax > 0) =>
            /\ IsPrefix(phases[c], <<"parse">>)
            /\ contextualErrors[c] = NoRef
            /\ generated[c] = 0
            /\ pc[c] = "done" =>
                  /\ outcome[c] = "syntax"
                  /\ phases[c] = <<"parse">>
                  /\ response[c].errors = ExpectedErrors("syntax", req[c], req[c].syntax)
                  /\ response[c].lines = ExpectedLines(req[c], req[c].syntax)

\* a compile of a program with two syntax errors has been answered, and the
\* file holds what another compile wrote
C7_Witness ==
    /\ pc["a"] = "done"
    /\ req["a"].syntax = 2
    /\ Len(response["a"].errors) = 2
    /\ file.exists
    /\ file.data # req["a"].id

\* C8: a compile whose contextual analysis fails returns an error list and a
\* line list of the same length, index-aligned; a compile that succeeds
\* returns both lists empty.
C8_ErrorsAndLinesAligned ==
    \A c \in Clients :
        (IsCompile(c) /\ pc[c] = "done") =>
            /\ (req[c].syntax = 0 /\ req[c].contextual > 0) =>
                  /\ outcome[c] = "contextual"
                  /\ Len(response[c].errors) = Len(response[c].lines)
                  /\ Len(response[c].errors) = req[c].contextual
                  /\ \A i \in 1..Len(response[c].errors) :
                        /\ response[c].errors[i] = Message("contextual", req[c], i)
                        /\ i \in DOMAIN response[c].lines
                        /\ response[c].lines[i] = LineOf(req[c], i)
            /\ outcome[c] = "ok" =>
                  (response[c].errors = <<>> /\ response[c].lines = <<>>)

\* one compile failed with two contextual errors, another succeeded
C8_Witness ==
    /\ pc["a"] = "done"
    /\ outcome["a"] = "contextual"
    /\ Len(response["a"].errors) = 2
    /\ pc["b"] = "done"
    /\ outcome["b"] = "ok"

\* C9: a run issued after a client's own successful compile launches the VM
\* on the instructions that compile wrote, whatever other requests do in
\* between: no other compile overwrites the file before the run. (Stated for
\* runs that found a completely written file, so that a violation is an
\* overwrite by another compile and not a failed write.)
C9_RunExecutesOwnProgram ==
    \A c \in Clients :
        (outcome[c] \in {"finished", "vmfailed"} /\ own[c] # 0 /\ launched[c].data # 0) =>
            launched[c] = Written(own[c])

\* C10: every compilation has its own listener, errors handler and code
\* generator, and under any interleaving of two compiles the errors and lines
\* returned for a request are those of that request's own program.
C10_CompilesAreIsolated ==
    /\ \A c1, c2 \in Clients :
          c1 # c2 =>
              /\ parserErrors[c1] # NoRef => parserErrors[c1] # parserErrors[c2]
              /\ contextualErrors[c1] # NoRef => contextualErrors[c1] # contextualErrors[c2]
    /\ \A c \in Clients :
          (IsCompile(c) /\ pc[c] = "done") =>
              /\ \A i \in 1..Len(response[c].errors) :
                    response[c].errors[i].program = req[c].id
              /\ response[c].tree = req[c].id
              /\ req[c].syntax > 0 =>
                    /\ response[c].errors = ExpectedErrors("syntax", req[c], req[c].syntax)
                    /\ response[c].lines = ExpectedLines(req[c], req[c].syntax)
              /\ (req[c].syntax = 0 /\ req[c].contextual > 0) =>
                    /\ response[c].errors = ExpectedErrors("contextual", req[c], req[c].contextual)
                    /\ response[c].lines = ExpectedLines(req[c], req[c].contextual)
              /\ (req[c].syntax = 0 /\ req[c].contextual = 0) =>
                    /\ outcome[c] \in {"ok", "savefailed"}
                    /\ response[c].lines = <<>>
                    /\ response[c].errors \in {<<>>, <<Message("save", req[c], 1)>>}

\* a compile of a program with contextual errors is answered while a compile
\* of another, valid program is between its contextual visit and its check
C10_Witness ==
    /\ pc["a"] = "done"
    /\ outcome["a"] = "contextual"
    /\ pc["b"] = "analysed"
    /\ req["b"].contextual = 0
    /\ req["b"].id # req["a"].id

(***************************************************************************)
(* Further claims about the hash type tracker                              *)
(***************************************************************************)

\* C11: closeHash called when no frame is open ends in a runtime panic instead
\* of returning normally, and leaves levels and the frame list as they were;
\* levels is never below -1. (In TrackerSpec only closeHash sets ret.op to
\* "closeHash", so a step that ends with it is a closeHash call.)
C11_CloseOnEmptyPanics ==
    /\ [](levels >= -1)
    /\ [][(hashs = <<>> /\ ret'.op = "closeHash") =>
            (panicked' /\ levels' = levels /\ hashs' = hashs)]_vars

\* a frame was opened, written and closed, and closeHash was called once more
C11_Witness ==
    /\ panicked
    /\ ret.op = "closeHash"
    /\ hashs = <<>>
    /\ closed = "dirty"

\* C12: while an inner frame is open, no call changes a frame below the top
\* one, so every open frame but the top one is what it was when the frame above
\* it was opened; when the inner frame is closed the outer frame is on top
\* again with the key type and token it had before, and getType and getToken
\* return exactly those.
C12_InnerLeavesOuterAlone ==
    /\ [](\A j \in 2..Len(marks) : Len(hashs) >= j - 1 /\ hashs[j - 1] = marks[j].top)
    /\ [][/\ \A i \in 1..(Len(hashs) - 1) : Len(hashs') >= i /\ hashs'[i] = hashs[i]
          /\ (ret'.op = "closeHash" /\ ~panicked' /\ Len(marks) >= 2) =>
                (hashs' # <<>> /\ hashs'[Len(hashs')] = marks[Len(marks)].top)
          /\ (ret'.op = "getType" /\ hashs # <<>>) =>
                (~panicked' /\ ret'.val.key = hashs[Len(hashs)].key)
          /\ (ret'.op = "getToken" /\ hashs # <<>>) =>
                (~panicked' /\ ret'.val.token = hashs[Len(hashs)].token)]_vars

\* an inner frame that had been written was just closed, and the outer frame
\* still has the key type and token set on it before
C12_Witness ==
    /\ ret.op = "closeHash"
    /\ ~panicked
    /\ closed = "dirty"
    /\ Len(hashs) = 1
    /\ hashs[1] = [token |-> "token", key |-> HINTEGER]

\* C13: levels is the number of frames minus one (-1 exactly when the list is
\* empty), and the number of frames is the number of newHash calls not yet
\* matched by a closeHash.
C13_LevelsMatchesFrames ==
    /\ levels = Len(hashs) - 1
    /\ levels = -1 <=> hashs = <<>>
    /\ Len(hashs) = Len(marks)

\* two frames are still open after a third was closed
C13_Witness ==
    /\ ret.op = "closeHash"
    /\ ~panicked
    /\ Len(hashs) = 2
    /\ Len(marks) = 2

\* C15: right after newHash the top frame has key type HUNKNOWN and no token,
\* whatever was opened, written and closed before at the same depth.
C15_NewFrameIsZero ==
    ret.op = "newHash" =>
        /\ hashs # <<>>
        /\ hashs[Len(hashs)].key = HUNKNOWN
        /\ hashs[Len(hashs)].token = NilToken
        /\ InRange(levels) /\ Frame(levels) = hash

\* newHash directly follows the closeHash of a written frame at the same
\* depth, under an outer frame that is written too
C15_Witness ==
    /\ ret.op = "newHash"
    /\ closed = "dirty"
    /\ Len(hashs) = 2
    /\ hashs[1] = [token |-> "token", key |-> HSTRING]

\* C20: with no frame open setToken returns normally and changes nothing,
\* while setType and getToken end in a runtime panic and change nothing.
C20_EmptyTrackerCalls ==
    [][hashs = <<>> =>
          /\ ret'.op = "setToken" => (~panicked' /\ levels' = levels /\ hashs' = hashs)
          /\ ret'.op \in {"setType", "getToken"} =>
                (panicked' /\ levels' = levels /\ hashs' = hashs)]_vars

\* setType was called after the only frame had been closed
C20_Witness ==
    /\ panicked
    /\ ret.op = "setType"
    /\ hashs = <<>>
    /\ obs # <<>>

(***************************************************************************)
(* Claims about the identification table attribute                         *)
(***************************************************************************)

\* C14: an attribute is created with visited false, and no call ever changes
\* the flag of an attribute from true to false: markVisited leaves the flag
\* true whatever it was before, and wasVisited and the getters leave every
\* attribute as it is, wasVisited returning the flag.
C14_VisitedOnlyRises ==
    [][/\ Len(attributes') >= Len(attributes)
       /\ \A a \in Attributes : attributes[a].visited => attributes'[a].visited
       /\ \A a \in 1..Len(attributes') : a \notin Attributes => ~attributes'[a].visited
       /\ aret'.op = "markVisited" =>
             attributes' = [attributes EXCEPT ![aret'.on].visited = TRUE]
       /\ aret'.op \in {"wasVisited", "getToken", "GetType", "GetData"} =>
             attributes' = attributes
       /\ aret'.op = "wasVisited" => aret'.val.visited = attributes[aret'.on].visited
      ]_vars

\* markVisited was called a second time on an attribute, which is still
\* visited, next to an attribute nobody marked
C14_Witness ==
    /\ aret.op = "markVisited"
    /\ prior
    /\ attributes[aret.on].visited
    /\ \E a \in Attributes : ~attributes[a].visited

(***************************************************************************)
(* Further claims about the compile and run endpoints                      *)
(***************************************************************************)

\* how many times a request has run a step
Count(seq, x) == Cardinality({i \in 1..Len(seq) : seq[i] = x})

\* client c takes the step
Steps(c) == pc'[c] # pc[c] \/ requests'[c] # requests[c]

\* C16: a compile writes the file at most once and a run launches the VM at
\* most once; a compile whose write failed returns exactly one message, the
\* failure message of save, and a run whose VM failed returns the one string
\* ending in "...failed".
C16_FailuresAreSingleAndFinal ==
    \A c \in Clients :
        /\ Count(phases[c], "save") <= 1
        /\ Count(phases[c], "exec") <= 1
        /\ outcome[c] = "savefailed" =>
              /\ pc[c] = "done"
              /\ Count(phases[c], "save") = 1
              /\ Len(response[c].errors) = 1
              /\ response[c].errors[1] = Message("save", req[c], 1)
        /\ outcome[c] = "vmfailed" =>
              /\ pc[c] = "done"
              /\ Count(phases[c], "exec") = 1
              /\ response[c].result = "...failed"

\* one client's compile has failed to save and the other's run has failed in
\* the VM
C16_Witness ==
    /\ outcome["a"] = "savefailed"
    /\ response["a"].errors = <<Message("save", req["a"], 1)>>
    /\ outcome["b"] = "vmfailed"

\* C17: whenever parsing has returned, on any path, the error-message list and
\* the line-number list of the response have the same length.
C17_ListsSameLength ==
    \A c \in Clients :
        (IsCompile(c) /\ pc[c] = "done") =>
            Len(response[c].errors) = Len(response[c].lines)

\* C18: no step of a compile of a program with syntax or contextual errors
\* changes the file, such a compile ends without having generated or saved,
\* and the VM is launched on the file as it is, so a run after the failed
\* compile prints what the file held before that compile.
C18_FailedCompileKeepsArtifact ==
    /\ [](\A c \in Clients :
            outcome[c] \in {"syntax", "contextual"} =>
                /\ "codegen" \notin Range(phases[c])
                /\ "save" \notin Range(phases[c]))
    /\ [][\A c \in Clients :
            /\ (Steps(c) /\ (req'[c].syntax > 0 \/ req'[c].contextual > 0)) => file' = file
            /\ (Steps(c) /\ outcome'[c] \in {"syntax", "contextual"}) => file' = file
            /\ (pc[c] = "exec" /\ Steps(c)) =>
                  /\ launched'[c] = file
                  /\ outcome'[c] = "finished" => response'[c].out = file.data]_vars

\* client b's only request, a compile of program 2, was rejected, and client
\* a's run printed program 1, which a had compiled
C18_Witness ==
    /\ outcome["b"] \in {"syntax", "contextual"}
    /\ req["b"].id = 2
    /\ requests["b"] = 1
    /\ outcome["a"] = "finished"
    /\ own["a"] = 1
    /\ launched["a"] = Written(1)
    /\ response["a"].out = 1

\* C19: a run that finds no file at cli.InstructionsCode returns the
\* "Instructions code not found. Must compile first." string ending in
\* "...failed" without going on to launch the VM; the VM is only ever
\* launched on a file that exists.
C19_RunWithoutArtifact ==
    /\ [](\A c \in Clients :
            /\ pc[c] = "exec" => file.exists
            /\ "exec" \in Range(phases[c]) => launched[c].exists
            /\ outcome[c] = "notfound" =>
                  /\ phases[c] = <<"stat">>
                  /\ launched[c] = NoFile
                  /\ response[c].result =
                        "Instructions code not found. Must compile first. ...failed")
    /\ [][\A c \in Clients :
            (pc[c] = "stat" /\ ~file.exists /\ Steps(c)) =>
                /\ pc'[c] = "done"
                /\ outcome'[c] = "notfound"
                /\ launched'[c] = NoFile]_vars

\* a run returned not-found after the other client's compile was rejected,
\* with no file written yet
C19_Witness ==
    /\ outcome["a"] = "notfound"
    /\ pc["a"] = "done"
    /\ ~file.exists
    /\ outcome["b"] \in {"syntax", "contextual"}

====
